---- MODULE Spec2Model ----
(***************************************************************************)
(* A model of crpr (src/crpr.py): the interactive selection state machine  *)
(* of VideoCropTool (mouse_callback and the key handling of                *)
(* show_frame_for_cropping) and the frame-streaming crop_video pipeline.   *)
(*                                                                         *)
(* Spec      : one selection session on a loaded frame.                    *)
(* SpecCrop  : one call of crop_video from process_video, on a small       *)
(*             source video; SpecCropLive adds that the call keeps running.*)
(* SpecQuery : direct calls of get_handle_at_position and                  *)
(*             check_minimum_size on any stored rectangle.                 *)
(***************************************************************************)
EXTENDS Integers, Sequences, FiniteSets, TLC

(***************************************************************************)
(* Bounds of the model.                                                    *)
(***************************************************************************)
\* size of the first frame of the loaded video
FrameWidth == 60
FrameHeight == 44
\* pointer events arrive on a grid of pixels inside the frame
StepX == 15
StepY == 20
\* the source video of a crop_video call
SrcWidth == 3
SrcHeight == 2
MaxFrames == 2
\* pointer-down events handled in one session
MaxDrags == 2

(***************************************************************************)
(* Program constants.                                                      *)
(***************************************************************************)
HANDLE_SENSITIVITY == 10
min_size == 10
\* Optional[int] fields hold None until set
None == -9999
NoHandle == "None"

PtrXs == {i * StepX : i \in 0..((FrameWidth - 1) \div StepX)}
PtrYs == {j * StepY : j \in 0..((FrameHeight - 1) \div StepY)}

VARIABLES
    \* CropState
    start_x, start_y, end_x, end_y,
    drag_mode,
    move_start_x, move_start_y,
    frame, original_frame,
    frame_width, frame_height,
    resize_handle,
    \* VideoCropTool.square_mode (the checkbox)
    square_mode,
    \* show_frame_for_cropping: "running", "done" (break after process_video),
    \* "closed" (Esc), "raised" (an exception left the loop)
    session,
    \* the error the last handled event reported ("" when none), the ROI
    \* process_video handed to crop_video (<<>> when it did not), and the
    \* number of pointer-down events handled so far
    reported, pipelineRoi, drags,
    \* crop_video
    pcCrop, crop_roi, source, capOpened, capPos, written,
    capReleased, outReleased, outSize,
    \* crop_video: the source stream's frame rate in thousandths of a frame
    \* per second, and the frame rate given to the output stream
    src_fps, out_fps,
    \* process_video: the status written to the operation log ("" before)
    status_msg,
    \* the last direct call of a query method: its arguments and its result
    probe

selVars == <<start_x, start_y, end_x, end_y, drag_mode, move_start_x,
             move_start_y, frame, original_frame, frame_width, frame_height,
             resize_handle, square_mode, session, reported, pipelineRoi,
             drags>>
cropVars == <<pcCrop, crop_roi, source, capOpened, capPos, written,
              capReleased, outReleased, outSize, src_fps, out_fps, status_msg>>
vars == <<selVars, cropVars, probe>>

Max(a, b) == IF a >= b THEN a ELSE b
Min(a, b) == IF a <= b THEN a ELSE b
Abs(a) == IF a >= 0 THEN a ELSE -a

(***************************************************************************)
(* The rectangle of a CropState as a record; operators below are pure      *)
(* functions of it, as the methods are of self.crop_state.                 *)
(***************************************************************************)
Rect(sx, sy, ex, ey) == [sx |-> sx, sy |-> sy, ex |-> ex, ey |-> ey]
CurRect == Rect(start_x, start_y, end_x, end_y)

has_valid_selection(r) ==
    r.sx # None /\ r.sy # None /\ r.ex # None /\ r.ey # None

\* x1, x2 = sorted([start_x, end_x]); y1, y2 = sorted([start_y, end_y])
X1(r) == Min(r.sx, r.ex)
X2(r) == Max(r.sx, r.ex)
Y1(r) == Min(r.sy, r.ey)
Y2(r) == Max(r.sy, r.ey)
Width(r) == X2(r) - X1(r)
Height(r) == Y2(r) - Y1(r)

\* the handles dict, in its insertion (iteration) order
HandleNames == <<"top-left", "top-right", "bottom-left", "bottom-right",
                 "top", "bottom", "left", "right">>
Corners == {"top-left", "top-right", "bottom-left", "bottom-right"}

HandlePos(r, h) ==
    CASE h = "top-left" -> <<X1(r), Y1(r)>>
      [] h = "top-right" -> <<X2(r), Y1(r)>>
      [] h = "bottom-left" -> <<X1(r), Y2(r)>>
      [] h = "bottom-right" -> <<X2(r), Y2(r)>>
      [] h = "top" -> <<(X1(r) + X2(r)) \div 2, Y1(r)>>
      [] h = "bottom" -> <<(X1(r) + X2(r)) \div 2, Y2(r)>>
      [] h = "left" -> <<X1(r), (Y1(r) + Y2(r)) \div 2>>
      [] h = "right" -> <<X2(r), (Y1(r) + Y2(r)) \div 2>>

\* a hit test that excludes the boundary
HandleHit_strict(r, h, x, y) ==
    /\ Abs(x - HandlePos(r, h)[1]) < HANDLE_SENSITIVITY
    /\ Abs(y - HandlePos(r, h)[2]) < HANDLE_SENSITIVITY

\* abs(x - hx) <= HANDLE_SENSITIVITY and abs(y - hy) <= HANDLE_SENSITIVITY
HandleHit(r, h, x, y) ==
    /\ Abs(x - HandlePos(r, h)[1]) <= HANDLE_SENSITIVITY
    /\ Abs(y - HandlePos(r, h)[2]) <= HANDLE_SENSITIVITY

\* a lookup that finds no handle at a point strictly inside the rectangle
get_handle_at_position_outside(r, x, y) ==
    IF ~has_valid_selection(r) THEN NoHandle
    ELSE IF X1(r) < x /\ x < X2(r) /\ Y1(r) < y /\ y < Y2(r) THEN NoHandle
    ELSE LET hits == {i \in 1..Len(HandleNames) : HandleHit(r, HandleNames[i], x, y)}
         IN IF hits = {} THEN NoHandle
            ELSE HandleNames[CHOOSE i \in hits : \A j \in hits : i <= j]

get_handle_at_position(r, x, y) ==
    IF ~has_valid_selection(r) THEN NoHandle
    ELSE LET hits == {i \in 1..Len(HandleNames) : HandleHit(r, HandleNames[i], x, y)}
         IN IF hits = {} THEN NoHandle
            ELSE HandleNames[CHOOSE i \in hits : \A j \in hits : i <= j]

point_in_selection(r, x, y) ==
    IF ~has_valid_selection(r) THEN FALSE
    ELSE IF get_handle_at_position(r, x, y) # NoHandle THEN FALSE
    ELSE X1(r) < x /\ x < X2(r) /\ Y1(r) < y /\ y < Y2(r)

\* a square whose zero delta stays zero
make_square_zero(sx, sy, cx, cy) ==
    LET dx == cx - sx
        dy == cy - sy
        max_delta == Max(Abs(dx), Abs(dy))
        new_dx == IF dx > 0 THEN max_delta ELSE IF dx < 0 THEN -max_delta ELSE 0
        new_dy == IF dy > 0 THEN max_delta ELSE IF dy < 0 THEN -max_delta ELSE 0
    IN <<sx + new_dx, sy + new_dy>>

make_square(sx, sy, cx, cy) ==
    LET dx == cx - sx
        dy == cy - sy
        abs_dx == Abs(dx)
        abs_dy == Abs(dy)
        max_delta == Max(abs_dx, abs_dy)
        new_dx == IF dx > 0 THEN max_delta ELSE -max_delta
        new_dy == IF dy > 0 THEN max_delta ELSE -max_delta
    IN <<sx + new_dx, sy + new_dy>>

\* flags & cv2.EVENT_FLAG_SHIFTKEY, or the toggle
check_shift_key(shift) == shift \/ square_mode

HasLeft(h) == h \in {"top-left", "bottom-left", "left"}
HasRight(h) == h \in {"top-right", "bottom-right", "right"}
HasTop(h) == h \in {"top-left", "top-right", "top"}
HasBottom(h) == h \in {"bottom-left", "bottom-right", "bottom"}

\* lines 205-218: the clamped pointer is written to the stored start/end
\* fields the handle's name selects
resize_edges(r, h, fw, fh, x, y) ==
    LET cx == Max(0, Min(x, fw))
        cy == Max(0, Min(y, fh))
    IN Rect(IF HasLeft(h) THEN cx ELSE r.sx,
            IF HasTop(h) THEN cy ELSE r.sy,
            IF ~HasLeft(h) /\ HasRight(h) THEN cx ELSE r.ex,
            IF ~HasTop(h) /\ HasBottom(h) THEN cy ELSE r.ey)

\* lines 220-238
resize_square(r, h) ==
    LET max_size == Max(Width(r), Height(r))
    IN CASE h = "top-left" ->
              Rect(r.ex - max_size, r.ey - max_size, r.ex, r.ey)
         [] h = "top-right" ->
              Rect(r.sx, r.ey - max_size, r.sx + max_size, r.ey)
         [] h = "bottom-left" ->
              Rect(r.ex - max_size, r.sy, r.ex, r.sy + max_size)
         [] h = "bottom-right" ->
              Rect(r.sx, r.sy, r.sx + max_size, r.sy + max_size)
         [] OTHER -> r

handle_resize(r, h, fw, fh, x, y, maintain_square) ==
    IF h = NoHandle THEN r
    ELSE LET r1 == resize_edges(r, h, fw, fh, x, y)
         IN IF maintain_square /\ h \in Corners THEN resize_square(r1, h) ELSE r1

\* a move that clips each edge to the frame instead of sliding back
move_selection_stretch(r, fw, fh, ax, ay, x, y) ==
    LET new_x1 == Max(0, X1(r) + (x - ax))
        new_y1 == Max(0, Y1(r) + (y - ay))
    IN Rect(new_x1, new_y1,
            Min(fw, X1(r) + (x - ax) + Width(r)),
            Min(fh, Y1(r) + (y - ay) + Height(r)))

\* the rectangle move_selection stores; (ax, ay) is the move anchor
move_selection(r, fw, fh, ax, ay, x, y) ==
    LET dx == x - ax
        dy == y - ay
        width == Width(r)
        height == Height(r)
        nx0 == X1(r) + dx
        ny0 == Y1(r) + dy
        nx1 == IF nx0 < 0 THEN 0 ELSE nx0
        ny1 == IF ny0 < 0 THEN 0 ELSE ny0
        new_x1 == IF nx1 + width > fw THEN fw - width ELSE nx1
        new_y1 == IF ny1 + height > fh THEN fh - height ELSE ny1
    IN Rect(new_x1, new_y1, new_x1 + width, new_y1 + height)

\* a size check that excludes the boundary
check_minimum_size_strict(r) ==
    IF ~has_valid_selection(r) THEN FALSE
    ELSE Width(r) > min_size /\ Height(r) > min_size

check_minimum_size(r) ==
    IF ~has_valid_selection(r) THEN FALSE
    ELSE Width(r) >= min_size /\ Height(r) >= min_size

\* a validation that leaves out the minimum-size check
validate_error_nosize(r) ==
    IF ~has_valid_selection(r) THEN "select a crop region first"
    ELSE ""

\* the error validate_selection reports, "" when the selection is accepted
validate_error(r) ==
    IF ~has_valid_selection(r) THEN "select a crop region first"
    ELSE IF ~check_minimum_size(r)
         THEN "selection too small. please select a larger region."
    ELSE ""

validate_selection(r) == validate_error(r) = ""

get_crop_roi(r) == <<X1(r), Y1(r), Width(r), Height(r)>>

(***************************************************************************)
(* The selection session: show_frame_for_cropping has read the first       *)
(* frame, stored its size and both copies of it, and entered its loop.     *)
(***************************************************************************)
CropIdle ==
    /\ pcCrop = "idle"
    /\ crop_roi = <<0, 0, 0, 0>>
    /\ source = <<>>
    /\ capOpened = FALSE
    /\ capPos = 0
    /\ written = <<>>
    /\ capReleased = FALSE
    /\ outReleased = FALSE
    /\ outSize = <<>>
    /\ src_fps = 0
    /\ out_fps = None
    /\ status_msg = ""

Init ==
    /\ start_x = None /\ start_y = None
    /\ end_x = None /\ end_y = None
    /\ drag_mode = "NONE"
    /\ move_start_x = None /\ move_start_y = None
    /\ frame = "first frame" /\ original_frame = "first frame"
    /\ frame_width = FrameWidth /\ frame_height = FrameHeight
    /\ resize_handle = NoHandle
    /\ square_mode \in BOOLEAN
    /\ session = "running"
    /\ reported = "" /\ pipelineRoi = <<>> /\ drags = 0
    /\ CropIdle
    /\ probe = <<>>

SetRect(r) ==
    /\ start_x' = r.sx /\ start_y' = r.sy
    /\ end_x' = r.ex /\ end_y' = r.ey

\* mouse_callback, event == cv2.EVENT_LBUTTONDOWN
LButtonDown(x, y) ==
    /\ session = "running"
    /\ drags < MaxDrags
    /\ drags' = drags + 1
    /\ LET handle == get_handle_at_position(CurRect, x, y)
       IN IF handle # NoHandle
          THEN /\ drag_mode' = "RESIZING"
               /\ resize_handle' = handle
               /\ UNCHANGED <<start_x, start_y, end_x, end_y,
                              move_start_x, move_start_y>>
          ELSE IF has_valid_selection(CurRect) /\ point_in_selection(CurRect, x, y)
          THEN /\ drag_mode' = "MOVING"
               /\ move_start_x' = x
               /\ move_start_y' = y
               /\ UNCHANGED <<start_x, start_y, end_x, end_y, resize_handle>>
          ELSE /\ drag_mode' = "CREATING"
               /\ SetRect(Rect(x, y, x, y))
               /\ UNCHANGED <<move_start_x, move_start_y, resize_handle>>
    /\ reported' = ""
    /\ UNCHANGED <<frame, original_frame, frame_width, frame_height,
                   square_mode, session, pipelineRoi, cropVars, probe>>

\* mouse_callback, event == cv2.EVENT_MOUSEMOVE
MouseMove(x, y, shift) ==
    /\ session = "running"
    /\ IF drag_mode = "NONE"
       THEN UNCHANGED <<start_x, start_y, end_x, end_y, move_start_x,
                        move_start_y, frame>>
       ELSE /\ frame' = original_frame
            /\ CASE drag_mode = "CREATING" ->
                      /\ IF check_shift_key(shift)
                         THEN LET e == make_square(start_x, start_y, x, y)
                              IN end_x' = e[1] /\ end_y' = e[2]
                         ELSE end_x' = x /\ end_y' = y
                      /\ UNCHANGED <<start_x, start_y, move_start_x, move_start_y>>
                 [] drag_mode = "MOVING" ->
                      /\ SetRect(move_selection(CurRect, frame_width, frame_height,
                                                move_start_x, move_start_y, x, y))
                      /\ move_start_x' = x
                      /\ move_start_y' = y
                 [] drag_mode = "RESIZING" ->
                      /\ SetRect(handle_resize(CurRect, resize_handle, frame_width,
                                               frame_height, x, y,
                                               check_shift_key(shift)))
                      /\ UNCHANGED <<move_start_x, move_start_y>>
    /\ reported' = ""
    /\ UNCHANGED <<drag_mode, original_frame, frame_width, frame_height,
                   resize_handle, square_mode, session, pipelineRoi, drags,
                   cropVars, probe>>

\* a pointer-up that forgets the drag mode
LButtonUp_keepmode ==
    /\ session = "running"
    /\ resize_handle' = NoHandle
    /\ reported' = ""
    /\ UNCHANGED <<start_x, start_y, end_x, end_y, drag_mode, move_start_x,
                   move_start_y, frame, original_frame, frame_width,
                   frame_height, square_mode, session, pipelineRoi, drags,
                   cropVars, probe>>

\* mouse_callback, event == cv2.EVENT_LBUTTONUP
LButtonUp ==
    /\ session = "running"
    /\ drag_mode' = "NONE"
    /\ resize_handle' = NoHandle
    /\ reported' = ""
    /\ UNCHANGED <<start_x, start_y, end_x, end_y, move_start_x, move_start_y,
                   frame, original_frame, frame_width, frame_height,
                   square_mode, session, pipelineRoi, drags, cropVars, probe>>

\* a confirm that, when it rejects the selection, also ends the drag
Confirm_cancels(pathGiven) ==
    /\ session = "running"
    /\ reported' = validate_error(CurRect)
    /\ IF validate_selection(CurRect)
       THEN /\ session' = "done"
            /\ pipelineRoi' = IF pathGiven THEN get_crop_roi(CurRect) ELSE <<>>
            /\ UNCHANGED <<drag_mode, resize_handle>>
       ELSE /\ drag_mode' = "NONE"
            /\ resize_handle' = NoHandle
            /\ UNCHANGED <<session, pipelineRoi>>
    /\ UNCHANGED <<start_x, start_y, end_x, end_y, move_start_x,
                   move_start_y, frame, original_frame, frame_width,
                   frame_height, square_mode, drags, cropVars, probe>>

\* key 'c': validate_selection, then process_video and break.  process_video
\* returns before crop_video when the save dialog gives no path.
Confirm(pathGiven) ==
    /\ session = "running"
    /\ reported' = validate_error(CurRect)
    /\ IF validate_selection(CurRect)
       THEN /\ session' = "done"
            /\ pipelineRoi' = IF pathGiven THEN get_crop_roi(CurRect) ELSE <<>>
       ELSE UNCHANGED <<session, pipelineRoi>>
    /\ UNCHANGED <<start_x, start_y, end_x, end_y, drag_mode, move_start_x,
                   move_start_y, frame, original_frame, frame_width,
                   frame_height, resize_handle, square_mode, drags, cropVars, probe>>

\* a reset that leaves the drag mode and the active handle as they are
Reset_keepmode ==
    /\ session = "running"
    /\ SetRect(Rect(None, None, None, None))
    /\ frame' = original_frame
    /\ session' = "raised"
    /\ reported' = "AttributeError"
    /\ UNCHANGED <<drag_mode, resize_handle, move_start_x, move_start_y,
                   original_frame, frame_width, frame_height, square_mode,
                   pipelineRoi, drags, cropVars, probe>>

\* key 'r': reset_selection.  Its last statement reads self.roi_label, an
\* attribute no code of the class sets: the AttributeError leaves the loop.
Reset ==
    /\ session = "running"
    /\ SetRect(Rect(None, None, None, None))
    /\ drag_mode' = "NONE"
    /\ resize_handle' = NoHandle
    /\ frame' = original_frame
    /\ session' = "raised"
    /\ reported' = "AttributeError"
    /\ UNCHANGED <<move_start_x, move_start_y, original_frame, frame_width,
                   frame_height, square_mode, pipelineRoi, drags, cropVars, probe>>

\* key 27
Escape ==
    /\ session = "running"
    /\ session' = "closed"
    /\ reported' = ""
    /\ UNCHANGED <<start_x, start_y, end_x, end_y, drag_mode, move_start_x,
                   move_start_y, frame, original_frame, frame_width,
                   frame_height, resize_handle, square_mode, pipelineRoi,
                   drags, cropVars, probe>>

Next ==
    \/ \E x \in PtrXs, y \in PtrYs : LButtonDown(x, y)
    \/ \E x \in PtrXs, y \in PtrYs, shift \in BOOLEAN : MouseMove(x, y, shift)
    \/ LButtonUp
    \/ \E pathGiven \in BOOLEAN : Confirm(pathGiven)
    \/ Reset
    \/ Escape

Spec == Init /\ [][Next]_vars

(***************************************************************************)
(* crop_video.  A frame is a sequence of rows of pixels (frame[row][col],  *)
(* 1-based here, 0-based in numpy); every pixel of the source is distinct. *)
(***************************************************************************)
Pixel(i, row, col) == <<i, row, col>>
SourceFrame(i) ==
    [row \in 1..SrcHeight |-> [col \in 1..SrcWidth |-> Pixel(i, row, col)]]
SourceVideo(n) == [i \in 1..n |-> SourceFrame(i)]

\* seq[a:b], numpy's (and Python's) slice of a sequence: a negative index
\* counts from the end, both indices are clipped to the sequence
NpIndex(v, n) == IF v < 0 THEN Max(v + n, 0) ELSE Min(v, n)
NpSlice(seq, a, b) ==
    LET s == NpIndex(a, Len(seq))
        e == NpIndex(b, Len(seq))
    IN IF e > s THEN SubSeq(seq, s + 1, e) ELSE <<>>

\* a slice that takes one column too many
crop_frame_wide(f, roi) ==
    LET rows == NpSlice(f, roi[2], roi[2] + roi[4])
    IN [i \in 1..Len(rows) |-> NpSlice(rows[i], roi[1], roi[1] + roi[3] + 1)]

\* frame[y:y+h, x:x+w] with x, y, w, h = crop_roi
crop_frame(f, roi) ==
    LET rows == NpSlice(f, roi[2], roi[2] + roi[4])
    IN [i \in 1..Len(rows) |-> NpSlice(rows[i], roi[1], roi[1] + roi[3])]

\* cap.get(cv2.CAP_PROP_FPS) is a float; the model holds it in thousandths
FpsScale == 1000
\* 24 and 29.97 frames per second
SourceRates == {24 * FpsScale, 29 * FpsScale + 970}
\* int(v) of a float v >= 0 given in thousandths
int(v) == v \div FpsScale

RoiXs == (-1)..SrcWidth
RoiYs == (-1)..SrcHeight
RoiWs == 0..(SrcWidth + 1)
RoiHs == 0..(SrcHeight + 1)

\* the selection session plays no part in a direct call of crop_video
SelIdle ==
    /\ start_x = None /\ start_y = None
    /\ end_x = None /\ end_y = None
    /\ drag_mode = "NONE"
    /\ move_start_x = None /\ move_start_y = None
    /\ frame = "first frame" /\ original_frame = "first frame"
    /\ frame_width = FrameWidth /\ frame_height = FrameHeight
    /\ resize_handle = NoHandle
    /\ square_mode = FALSE
    /\ session = "done"
    /\ reported = "" /\ pipelineRoi = <<>> /\ drags = 0

\* process_video calls crop_video(video_path, crop_roi, output_path): the
\* file at video_path holds n decodable frames, none when it cannot be opened
InitCrop ==
    /\ SelIdle
    /\ probe = <<>>
    /\ pcCrop = "start"
    /\ crop_roi \in RoiXs \X RoiYs \X RoiWs \X RoiHs
    /\ capOpened \in BOOLEAN
    /\ \E n \in 0..MaxFrames : /\ (~capOpened => n = 0)
                               /\ source = SourceVideo(n)
    /\ capPos = 0
    /\ written = <<>>
    /\ capReleased = FALSE
    /\ outReleased = FALSE
    /\ outSize = <<>>
    /\ src_fps \in (IF capOpened THEN SourceRates ELSE {0})
    /\ out_fps = None
    /\ status_msg = ""

\* lines 497-506: both streams are created; the output stream gets
\* fps = int(cap.get(cv2.CAP_PROP_FPS)) and the size (w, h)
CropOpen ==
    /\ pcCrop = "start"
    /\ pcCrop' = "loop"
    /\ out_fps' = int(src_fps)
    /\ outSize' = <<crop_roi[3], crop_roi[4]>>
    /\ UNCHANGED <<selVars, probe, crop_roi, source, capOpened, capPos,
                   written, capReleased, outReleased, src_fps, status_msg>>

\* one iteration: cap.read() gives a frame, its slice is written
CropWrite ==
    /\ pcCrop = "loop"
    /\ capOpened /\ capPos < Len(source)
    /\ capPos' = capPos + 1
    /\ written' = Append(written, crop_frame(source[capPos + 1], crop_roi))
    /\ UNCHANGED <<selVars, probe, pcCrop, crop_roi, source, capOpened,
                   capReleased, outReleased, outSize, src_fps, out_fps,
                   status_msg>>

\* one iteration in which slicing or out.write raises: the exception leaves
\* crop_video from inside the loop, past lines 516-517
CropRaise ==
    /\ pcCrop = "loop"
    /\ capOpened /\ capPos < Len(source)
    /\ capPos' = capPos + 1
    /\ pcCrop' = "raised"
    /\ UNCHANGED <<selVars, probe, crop_roi, source, capOpened, written,
                   capReleased, outReleased, outSize, src_fps, out_fps,
                   status_msg>>

\* a loop that ends only when the source is not open: at the end of the
\* stream it goes round again without reading a frame
CropReturn_closedonly ==
    /\ pcCrop = "loop"
    /\ ~capOpened
    /\ capReleased' = TRUE
    /\ outReleased' = TRUE
    /\ pcCrop' = "returned"
    /\ UNCHANGED <<selVars, probe, crop_roi, source, capOpened, capPos,
                   written, outSize, src_fps, out_fps, status_msg>>

\* the loop ends (cap.isOpened() is false, or cap.read() gives no frame),
\* both streams are released and crop_video returns
CropReturn ==
    /\ pcCrop = "loop"
    /\ ~capOpened \/ capPos >= Len(source)
    /\ capReleased' = TRUE
    /\ outReleased' = TRUE
    /\ pcCrop' = "returned"
    /\ UNCHANGED <<selVars, probe, crop_roi, source, capOpened, capPos,
                   written, outSize, src_fps, out_fps, status_msg>>

\* process_video, lines 486-488: crop_video returned
LogSuccess ==
    /\ pcCrop = "returned"
    /\ status_msg = ""
    /\ status_msg' = "cropped successfully"
    /\ UNCHANGED <<selVars, probe, pcCrop, crop_roi, source, capOpened,
                   capPos, written, capReleased, outReleased, outSize,
                   src_fps, out_fps>>

\* process_video, lines 489-491: crop_video raised
LogError ==
    /\ pcCrop = "raised"
    /\ status_msg = ""
    /\ status_msg' = "Error processing video"
    /\ UNCHANGED <<selVars, probe, pcCrop, crop_roi, source, capOpened,
                   capPos, written, capReleased, outReleased, outSize,
                   src_fps, out_fps>>

NextCrop ==
    \/ CropOpen
    \/ CropWrite
    \/ CropRaise
    \/ CropReturn
    \/ LogSuccess
    \/ LogError

SpecCrop == InitCrop /\ [][NextCrop]_vars

\* crop_video runs on its caller's thread from its first statement to its
\* return or its exception, and process_video then logs the status
SpecCropLive == SpecCrop /\ WF_vars(NextCrop)

(***************************************************************************)
(* Direct calls of the query methods on any stored rectangle.              *)
(***************************************************************************)
QueryCoords == {0, 9, 10, 30, 50}
\* pointer offsets from a handle's centre, 10 or 11 px away (Chebyshev)
QueryOffsets == {<<ox, oy>> \in {-11, -10, 0, 10, 11} \X {-11, -10, 0, 10, 11} :
                    Max(Abs(ox), Abs(oy)) >= 10}

InitQuery ==
    /\ start_x \in QueryCoords /\ start_y \in QueryCoords
    /\ end_x \in QueryCoords /\ end_y \in QueryCoords
    /\ drag_mode = "NONE"
    /\ move_start_x = None /\ move_start_y = None
    /\ frame = "first frame" /\ original_frame = "first frame"
    /\ frame_width = FrameWidth /\ frame_height = FrameHeight
    /\ resize_handle = NoHandle
    /\ square_mode = FALSE
    /\ session = "running"
    /\ reported = "" /\ pipelineRoi = <<>> /\ drags = 0
    /\ CropIdle
    /\ probe = <<>>

\* get_handle_at_position(x, y) with (x, y) at offset off from handle h
QueryHandle(h, off) ==
    /\ probe = <<>>
    /\ LET c == HandlePos(CurRect, h)
       IN probe' = [call |-> "get_handle_at_position", handle |-> h,
                    x |-> c[1] + off[1], y |-> c[2] + off[2],
                    dist |-> Max(Abs(off[1]), Abs(off[2])),
                    result |-> get_handle_at_position(CurRect, c[1] + off[1],
                                                      c[2] + off[2])]
    /\ UNCHANGED <<selVars, cropVars>>

\* check_minimum_size()
QueryMinimumSize ==
    /\ probe = <<>>
    /\ probe' = [call |-> "check_minimum_size",
                 result |-> check_minimum_size(CurRect)]
    /\ UNCHANGED <<selVars, cropVars>>

NextQuery ==
    \/ \E i \in 1..Len(HandleNames), off \in QueryOffsets :
          QueryHandle(HandleNames[i], off)
    \/ QueryMinimumSize

SpecQuery == InitQuery /\ [][NextQuery]_vars

(***************************************************************************)
(* The claims.                                                             *)
(***************************************************************************)
NextRect == Rect(start_x', start_y', end_x', end_y')
\* a pointer-move event is handled while the drag mode is m
MoveIn(m, x, y, shift) == drag_mode = m /\ MouseMove(x, y, shift)

\* C1 (SpecCrop): for an ROI inside the source frame, every frame written so
\* far is the slice rows [y, y+h) x columns [x, x+w) of the source frame of
\* the same index, and when crop_video returns it has written exactly as
\* many frames as the source has.
RoiInSource(roi) ==
    /\ 0 <= roi[1] /\ 0 <= roi[2]
    /\ roi[1] + roi[3] <= SrcWidth
    /\ roi[2] + roi[4] <= SrcHeight
ExpectedSlice(i, roi) ==
    [r \in 1..roi[4] |-> [c \in 1..roi[3] |-> Pixel(i, roi[2] + r, roi[1] + c)]]
C1_CropIsSlicePerFrame ==
    RoiInSource(crop_roi) =>
        /\ Len(written) <= Len(source)
        /\ \A i \in 1..Len(written) : written[i] = ExpectedSlice(i, crop_roi)
        /\ pcCrop = "returned" => Len(written) = Len(source)
C1_Witness ==
    /\ pcCrop = "returned"
    /\ RoiInSource(crop_roi)
    /\ crop_roi[1] > 0 /\ crop_roi[2] > 0 /\ crop_roi[3] > 1 /\ crop_roi[4] > 0
    /\ Len(source) > 1
    /\ Len(written) = Len(source)

\* C2 (Spec): a set rectangle has all four coordinates within the frame,
\* 0 <= start_x, end_x <= frame_width and 0 <= start_y, end_y <= frame_height.
C2_RectWithinFrame ==
    has_valid_selection(CurRect) =>
        /\ 0 <= start_x /\ start_x <= frame_width
        /\ 0 <= end_x /\ end_x <= frame_width
        /\ 0 <= start_y /\ start_y <= frame_height
        /\ 0 <= end_y /\ end_y <= frame_height

\* C3 (Spec): the pipeline is handed an ROI only by a confirm on a set
\* rectangle whose normalized width and height are both >= 10; a confirm in
\* any other state reports an error, hands nothing to the pipeline and
\* leaves the session running.
LargeEnough(r) ==
    /\ has_valid_selection(r)
    /\ Abs(r.ex - r.sx) >= 10
    /\ Abs(r.ey - r.sy) >= 10
C3_ConfirmGate ==
    /\ [](pipelineRoi # <<>> => session = "done" /\ LargeEnough(CurRect))
    /\ [][\A p \in BOOLEAN :
            Confirm(p) =>
                IF LargeEnough(CurRect)
                THEN reported' = "" /\ session' = "done"
                     /\ (p => pipelineRoi' = get_crop_roi(CurRect))
                ELSE reported' # "" /\ session' = "running"
                     /\ pipelineRoi' = <<>>]_vars
C3_Witness ==
    /\ session = "running"
    /\ has_valid_selection(CurRect)
    /\ reported = "selection too small. please select a larger region."
    /\ Width(CurRect) >= 10
    /\ pipelineRoi = <<>>

\* C4 (Spec): a pointer-move in CREATING mode with square mode active (the
\* toggle or the per-event modifier) leaves a rectangle of equal width and
\* height, whatever the signs of dx and dy.
C4_CreateSquare ==
    [][\A x \in PtrXs, y \in PtrYs, shift \in BOOLEAN :
          (MoveIn("CREATING", x, y, shift) /\ (shift \/ square_mode)) =>
              Width(NextRect) = Height(NextRect)]_vars
\* reached only by a square move with dx = 0: the end corner left of a start
\* corner in the first column
C4_Witness ==
    /\ drag_mode = "CREATING"
    /\ start_x = 0 /\ end_x < 0
    /\ Width(CurRect) = Height(CurRect)

\* C5 (Spec): a pointer-move in RESIZING mode with a corner handle active and
\* square mode on leaves a square rectangle whose normalized corner
\* diagonally opposite the handle is where it was before the move.
OppositeCorner(r, h) ==
    CASE h = "top-left" -> <<X2(r), Y2(r)>>
      [] h = "top-right" -> <<X1(r), Y2(r)>>
      [] h = "bottom-left" -> <<X2(r), Y1(r)>>
      [] h = "bottom-right" -> <<X1(r), Y1(r)>>
C5_SquareResizeKeepsOppositeCorner ==
    [][\A x \in PtrXs, y \in PtrYs, shift \in BOOLEAN :
          (/\ MoveIn("RESIZING", x, y, shift)
           /\ resize_handle \in Corners
           /\ (shift \/ square_mode)) =>
              /\ Width(NextRect) = Height(NextRect)
              /\ OppositeCorner(NextRect, resize_handle)
                    = OppositeCorner(CurRect, resize_handle)]_vars

\* C6 (Spec): a pointer-move in MOVING mode leaves the normalized width and
\* height of the rectangle as they were, also when the move is clamped.
C6_MoveKeepsSize ==
    [][\A x \in PtrXs, y \in PtrYs, shift \in BOOLEAN :
          MoveIn("MOVING", x, y, shift) =>
              /\ Width(NextRect) = Width(CurRect)
              /\ Height(NextRect) = Height(CurRect)]_vars
\* reached only by a clamped move: the anchor of an unclamped one stays where
\* pointer-down found it, strictly inside the rectangle
C6_Witness ==
    /\ drag_mode = "MOVING"
    /\ X2(CurRect) = frame_width
    /\ Width(CurRect) < frame_width /\ Height(CurRect) < frame_height
    /\ ~(X1(CurRect) < move_start_x /\ move_start_x < X2(CurRect))

\* C7 (Spec): a pointer-move in MOVING mode leaves the normalized rectangle
\* inside the frame: 0 <= x1, x2 <= frame_width, 0 <= y1, y2 <= frame_height.
C7_MoveStaysInFrame ==
    [][\A x \in PtrXs, y \in PtrYs, shift \in BOOLEAN :
          MoveIn("MOVING", x, y, shift) =>
              /\ 0 <= X1(NextRect) /\ X2(NextRect) <= frame_width
              /\ 0 <= Y1(NextRect) /\ Y2(NextRect) <= frame_height]_vars

\* C8 (SpecQuery), as claimed: a pointer exactly 10 px from a handle's centre
\* gets that handle, a pointer 11 px from it gets no handle.
HandleQuery == probe # <<>> /\ probe.call = "get_handle_at_position"
C8_ExactlyTenHitsElevenMisses ==
    HandleQuery =>
        /\ probe.dist = 10 => probe.result = probe.handle
        /\ probe.dist = 11 => probe.result = NoHandle
\* C8 (SpecQuery), amended: 10 px away gets that handle unless a handle
\* earlier in the order is within 10 px of the pointer on both axes; 11 px
\* away never gets that handle, and gets no handle when no other handle is
\* within 10 px on both axes.
InReach(h, x, y) ==
    /\ Abs(x - HandlePos(CurRect, h)[1]) <= 10
    /\ Abs(y - HandlePos(CurRect, h)[2]) <= 10
EarlierInReach(h, x, y) ==
    \E i, j \in 1..Len(HandleNames) :
        i < j /\ HandleNames[j] = h /\ InReach(HandleNames[i], x, y)
OtherInReach(h, x, y) ==
    \E i \in 1..Len(HandleNames) :
        HandleNames[i] # h /\ InReach(HandleNames[i], x, y)
C8_TenHitsUnlessEarlierHandle ==
    HandleQuery =>
        /\ (probe.dist = 10 /\ ~EarlierInReach(probe.handle, probe.x, probe.y))
              => probe.result = probe.handle
        /\ probe.dist = 11 => probe.result # probe.handle
        /\ (probe.dist = 11 /\ ~OtherInReach(probe.handle, probe.x, probe.y))
              => probe.result = NoHandle
C8_Witness ==
    /\ HandleQuery
    /\ probe.dist = 10
    /\ probe.handle = "right"
    /\ probe.result = "right"
    /\ start_x > end_x

\* C9 (SpecQuery): check_minimum_size is true exactly when the normalized
\* width and height are both >= 10, whichever stored corner is the start.
C9_MinimumSize ==
    (probe # <<>> /\ probe.call = "check_minimum_size") =>
        (probe.result <=> (/\ Abs(end_x - start_x) >= 10
                           /\ Abs(end_y - start_y) >= 10))
C9_Witness ==
    /\ probe # <<>> /\ probe.call = "check_minimum_size"
    /\ probe.result
    /\ start_x - end_x = 10
    /\ end_y - start_y = 10

\* C10 (SpecCrop): whenever crop_video has returned or raised, the input and
\* the output stream have both been released.
C10_StreamsReleasedOnEveryExit ==
    pcCrop \in {"returned", "raised"} => capReleased /\ outReleased

\* C11 (SpecCrop): when a crop run failed (the source could not be opened,
\* or slicing or encoding raised), the status process_video writes to the
\* operation log is an error status, never "cropped successfully".
CropFailed == ~capOpened \/ pcCrop = "raised"
C11_FailureIsLogged ==
    (status_msg # "" /\ CropFailed) => status_msg # "cropped successfully"

\* C12 (SpecCrop): once crop_video has created the output stream, the frame
\* rate it gave to it equals the source stream's frame rate.
C12_OutputRateIsSourceRate ==
    pcCrop # "start" => out_fps * FpsScale = src_fps

\* C13 (Spec): pointer-down at (x,y) enters RESIZING with a handle that is
\* within 10 px of (x,y) on both axes whenever there is one, else MOVING with
\* anchor (x,y) when a rectangle is set and (x,y) is strictly inside it, else
\* CREATING with start = end = (x,y); RESIZING and MOVING leave the rectangle
\* as it was.  A point inside the rectangle and inside a handle zone gives
\* RESIZING.
HandlesInReach(r, x, y) ==
    {h \in {HandleNames[i] : i \in 1..Len(HandleNames)} :
        /\ has_valid_selection(r)
        /\ Abs(x - HandlePos(r, h)[1]) <= 10
        /\ Abs(y - HandlePos(r, h)[2]) <= 10}
StrictlyInside(r, x, y) ==
    /\ has_valid_selection(r)
    /\ X1(r) < x /\ x < X2(r)
    /\ Y1(r) < y /\ y < Y2(r)
C13_PointerDownPriority ==
    [][\A x \in PtrXs, y \in PtrYs :
          LButtonDown(x, y) =>
              IF HandlesInReach(CurRect, x, y) # {}
              THEN /\ drag_mode' = "RESIZING"
                   /\ resize_handle' \in HandlesInReach(CurRect, x, y)
                   /\ NextRect = CurRect
              ELSE IF StrictlyInside(CurRect, x, y)
              THEN /\ drag_mode' = "MOVING"
                   /\ move_start_x' = x /\ move_start_y' = y
                   /\ NextRect = CurRect
              ELSE /\ drag_mode' = "CREATING"
                   /\ NextRect = Rect(x, y, x, y)]_vars
\* the bottom handle of (0,0)-(45,45) is at (22,45): the pointers of the grid
\* that get it, (15,40) and (30,40), are strictly inside the rectangle
C13_Witness ==
    /\ drag_mode = "RESIZING"
    /\ resize_handle = "bottom"
    /\ CurRect = Rect(0, 0, 45, 45)

\* C14 (Spec): in every reachable state, RESIZING has one of the eight
\* handles active, MOVING has its anchor set, and MOVING and RESIZING have
\* all four rectangle coordinates set.
C14_ModeInvariant ==
    /\ drag_mode = "RESIZING" =>
           \E i \in 1..Len(HandleNames) : resize_handle = HandleNames[i]
    /\ drag_mode = "MOVING" => move_start_x # None /\ move_start_y # None
    /\ drag_mode \in {"MOVING", "RESIZING"} => has_valid_selection(CurRect)
\* RESIZING entered by a pointer-down on a handle of a rectangle whose
\* creating drag has moved the end corner away from the start corner
C14_Witness ==
    /\ drag_mode = "RESIZING"
    /\ resize_handle = "bottom-right"
    /\ has_valid_selection(CurRect)
    /\ Width(CurRect) > 0 /\ Height(CurRect) > 0
    /\ drags > 1

\* C15 (Spec): a pointer-move in RESIZING mode without square mode sets the
\* edges of the normalized rectangle the active handle names to the clamped
\* pointer (left/right to x, top/bottom to y) and leaves the other edges as
\* they were.
C15_ResizeSetsNamedEdges ==
    [][\A x \in PtrXs, y \in PtrYs, shift \in BOOLEAN :
          (MoveIn("RESIZING", x, y, shift) /\ ~(shift \/ square_mode)) =>
              LET cx == Max(0, Min(x, frame_width))
                  cy == Max(0, Min(y, frame_height))
                  h == resize_handle
              IN /\ X1(NextRect) = IF HasLeft(h) THEN cx ELSE X1(CurRect)
                 /\ X2(NextRect) = IF HasRight(h) THEN cx ELSE X2(CurRect)
                 /\ Y1(NextRect) = IF HasTop(h) THEN cy ELSE Y1(CurRect)
                 /\ Y2(NextRect) = IF HasBottom(h) THEN cy ELSE Y2(CurRect)]_vars

\* C16 (Spec): a reset leaves all four rectangle coordinates unset, the drag
\* mode NONE, no handle active and the working frame equal to the original.
C16_ResetClears ==
    [][Reset =>
          /\ ~has_valid_selection(NextRect)
          /\ start_x' = None /\ start_y' = None
          /\ end_x' = None /\ end_y' = None
          /\ drag_mode' = "NONE"
          /\ resize_handle' = NoHandle
          /\ frame' = original_frame']_vars
\* a reset after a second pointer-down entered MOVING: the rectangle was set
\* when the reset came (only a reset unsets it)
C16_Witness ==
    /\ session = "raised"
    /\ start_x = None /\ end_y = None
    /\ drag_mode = "NONE"
    /\ move_start_x # None
    /\ drags > 1

\* C17 (SpecCropLive): crop_video ends; once the source is not open or has no
\* further frame, its next step is the return, with nothing more written;
\* it returns only then, and a returned run is never logged as an error.
EndOfStream == ~capOpened \/ capPos >= Len(source)
C17_CropTerminates ==
    /\ <>(pcCrop \in {"returned", "raised"})
    /\ [][(pcCrop = "loop" /\ EndOfStream) =>
             (pcCrop' = "returned" /\ written' = written)]_vars
    /\ [](pcCrop = "returned" =>
             (EndOfStream /\ status_msg \in {"", "cropped successfully"}))
C17_Witness ==
    /\ pcCrop = "returned"
    /\ capOpened
    /\ Len(source) > 1
    /\ capPos = Len(source)
    /\ Len(written) = Len(source)
    /\ status_msg = "cropped successfully"

\* C18 (Spec): a confirm that is rejected (no rectangle set, or width or
\* height below 10) leaves the rectangle, the drag mode, the active handle
\* and the frames as they were, starts no crop run and leaves the session
\* running.
C18_RejectedConfirmChangesNothing ==
    [][\A p \in BOOLEAN :
          (Confirm(p) /\ ~LargeEnough(CurRect)) =>
              /\ NextRect = CurRect
              /\ UNCHANGED <<drag_mode, resize_handle, move_start_x,
                             move_start_y, frame, original_frame>>
              /\ UNCHANGED <<pipelineRoi, cropVars>>
              /\ pipelineRoi = <<>>
              /\ session' = "running"]_vars
\* a confirm rejected in the middle of a resize drag
C18_Witness ==
    /\ session = "running"
    /\ reported = "selection too small. please select a larger region."
    /\ drag_mode = "RESIZING"
    /\ resize_handle # NoHandle
    /\ pipelineRoi = <<>>

\* C19 (Spec): the ROI (x, y, w, h) handed to crop_video lies inside the
\* frame: 0 <= x, 0 <= y, x + w <= frame_width, y + h <= frame_height.
C19_RoiWithinFrame ==
    pipelineRoi # <<>> =>
        /\ 0 <= pipelineRoi[1] /\ 0 <= pipelineRoi[2]
        /\ pipelineRoi[1] + pipelineRoi[3] <= frame_width
        /\ pipelineRoi[2] + pipelineRoi[4] <= frame_height

\* C20 (Spec): a reset returns without raising, so the session's loop keeps
\* running after it.
C20_ResetReturns ==
    [][Reset => (session' = "running" /\ reported' = "")]_vars

====
